---- MODULE Spec2Model ----
(***************************************************************************)
(* Model of the mood-based recommendation pipeline of src/unnamed/part_000 *)
(* (generateSongs, estimateFeaturesFromGenres, calculateMoodScore and      *)
(* generateMockSongs).                                                     *)
(*                                                                         *)
(* Strings that the code inspects character by character (genre names and  *)
(* preset keywords) are sequences of one-character strings.  Numbers in    *)
(* [0,1] are exact rationals held as integers in units of 1/(100*Den).     *)
(***************************************************************************)
EXTENDS Integers, Sequences, FiniteSets, TLC

VARIABLES
  pc,               \* position of the one generateSongs call
  seedSong,         \* argument: [id, artistId]; "" is a missing identifier
  moodSettings,     \* argument: [energy, danceability, valence]
  token,            \* argument: TRUE when a token is supplied
  artistReq,        \* GET /artists/{id}:            none, pending, ok, fail
  topReq,           \* GET /artists/{id}/top-tracks: none, pending, ok, fail
  artistRes,        \* genres of the artist response (artistRes.data.genres)
  topTracksRes,     \* tracks of the top-tracks response
  seedGenres,       \* local seedGenres
  candidateTracks,  \* local candidateTracks (the pool, in collection order)
  seenTrackIds,     \* local seenTrackIds
  mainGenres,       \* local mainGenres
  gi,               \* index in mainGenres of the search in flight
  batches,          \* local batches
  bi,               \* index in batches of the lookup in flight
  artistMap,        \* local artistMap: artist id -> artist record
  tracksWithScores, \* local tracksWithScores (after the sort)
  result,           \* the list the call returned
  via,              \* which return statement produced it: none, mock, live
  outcome,          \* pending, returned, threw
  issued,           \* log of the catalog requests issued, in order
  answered,         \* log of the answers to searches and batch lookups
  estIn,            \* argument of a direct call of estimateFeaturesFromGenres
  estOut            \* its result

vars == <<pc, seedSong, moodSettings, token, artistReq, topReq, artistRes,
          topTracksRes, seedGenres, candidateTracks, seenTrackIds, mainGenres,
          gi, batches, bi, artistMap, tracksWithScores, result, via, outcome,
          issued, answered, estIn, estOut>>

-----------------------------------------------------------------------------
(* Bounds *)

\* longest genre list given to a direct call of estimateFeaturesFromGenres
MaxGenres == 3

\* length of the longest top-tracks response the upstream returns
BigTop == 56

-----------------------------------------------------------------------------
(* Arithmetic *)

RECURSIVE Factorial(_)
Factorial(n) == IF n <= 1 THEN 1 ELSE n * Factorial(n - 1)

\* every mean of at most MaxGenres hundredths is a whole number of 1/(100*Den)
Den == Factorial(MaxGenres)

\* the number h/100 in model units
Hundredths(h) == h * Den

Abs(x) == IF x < 0 THEN -x ELSE x

\* Math.round of the rational num/den (den > 0): nearest integer, ties up
MathRound(num, den) == (2 * num + den) \div (2 * den)

-----------------------------------------------------------------------------
(* Strings *)

UpperCase == <<"A","B","C","D","E","F","G","H","I","J","K","L","M",
               "N","O","P","Q","R","S","T","U","V","W","X","Y","Z">>
LowerCase == <<"a","b","c","d","e","f","g","h","i","j","k","l","m",
               "n","o","p","q","r","s","t","u","v","w","x","y","z">>

toLowerCaseChar(c) ==
  IF \E k \in 1..Len(UpperCase) : UpperCase[k] = c
  THEN LowerCase[CHOOSE k \in 1..Len(UpperCase) : UpperCase[k] = c]
  ELSE c

\* String.prototype.toLowerCase
toLowerCase(g) == [i \in 1..Len(g) |-> toLowerCaseChar(g[i])]

\* String.prototype.includes
includes(g, kw) ==
  \E i \in 0..(Len(g) - Len(kw)) : SubSeq(g, i + 1, i + Len(kw)) = kw

-----------------------------------------------------------------------------
(* Mood / feature helpers *)

\* keyword sets and feature triples (in hundredths), in table order
GENRE_PRESETS ==
  <<
     [keywords |-> <<<<"e","d","m">>,
                     <<"e","l","e","c","t","r","o">>,
                     <<"h","o","u","s","e">>,
                     <<"t","e","c","h","n","o">>,
                     <<"t","r","a","n","c","e">>,
                     <<"d","u","b","s","t","e","p">>>>,
      energy |-> 90, danceability |-> 80, valence |-> 60],
     [keywords |-> <<<<"d","a","n","c","e"," ","p","o","p">>,
                     <<"p","o","p">>,
                     <<"k","-","p","o","p">>,
                     <<"e","l","e","c","t","r","o","p","o","p">>>>,
      energy |-> 80, danceability |-> 85, valence |-> 80],
     [keywords |-> <<<<"h","i","p"," ","h","o","p">>,
                     <<"r","a","p">>,
                     <<"t","r","a","p">>>>,
      energy |-> 80, danceability |-> 90, valence |-> 60],
     [keywords |-> <<<<"r","&","b">>,
                     <<"s","o","u","l">>>>,
      energy |-> 60, danceability |-> 70, valence |-> 70],
     [keywords |-> <<<<"i","n","d","i","e">>,
                     <<"a","l","t">>,
                     <<"a","l","t","e","r","n","a","t","i","v","e">>>>,
      energy |-> 55, danceability |-> 60, valence |-> 60],
     [keywords |-> <<<<"r","o","c","k">>,
                     <<"h","a","r","d"," ","r","o","c","k">>,
                     <<"p","u","n","k">>>>,
      energy |-> 80, danceability |-> 55, valence |-> 55],
     [keywords |-> <<<<"m","e","t","a","l">>>>,
      energy |-> 95, danceability |-> 40, valence |-> 40],
     [keywords |-> <<<<"l","o","-","f","i">>,
                     <<"c","h","i","l","l">>,
                     <<"a","m","b","i","e","n","t">>,
                     <<"d","o","w","n","t","e","m","p","o">>>>,
      energy |-> 30, danceability |-> 40, valence |-> 60],
     [keywords |-> <<<<"a","c","o","u","s","t","i","c">>,
                     <<"f","o","l","k">>,
                     <<"s","i","n","g","e","r","-","s","o","n","g","w","r","i","t","e","r">>>>,
      energy |-> 40, danceability |-> 45, valence |-> 70],
     [keywords |-> <<<<"c","l","a","s","s","i","c","a","l">>,
                     <<"s","o","u","n","d","t","r","a","c","k">>,
                     <<"s","c","o","r","e">>>>,
      energy |-> 35, danceability |-> 25, valence |-> 60]
  >>

DEFAULT_FEATURES ==
  [energy |-> Hundredths(60), danceability |-> Hundredths(60),
   valence |-> Hundredths(60)]

\* a JavaScript value that is either an array or undefined/null
JsArray(l) == [present |-> TRUE, list |-> l]
JsUndefined == [present |-> FALSE, list |-> <<>>]

\* preset.keywords.some((kw) => g.includes(kw))
hit(preset, g) ==
  \E k \in 1..Len(preset.keywords) : includes(g, preset.keywords[k])

\* a scan that credits the last matching preset instead of the first
ScanPresets_LastMatch(g, p) ==
  LET matching == {q \in p..Len(GENRE_PRESETS) : hit(GENRE_PRESETS[q], g)}
  IN  IF matching = {} THEN 0
      ELSE CHOOSE q \in matching : \A r \in matching : r <= q

\* the inner loop over GENRE_PRESETS from position p: the index of the preset
\* at which the loop breaks, 0 when it runs to the end without a hit
RECURSIVE ScanPresets(_, _)
ScanPresets(g, p) ==
  IF p > Len(GENRE_PRESETS) THEN 0
  ELSE IF hit(GENRE_PRESETS[p], g) THEN p
  ELSE ScanPresets(g, p + 1)

\* the outer loop over lowerGenres from position i with the running totals
RECURSIVE AccumulateGenres(_, _, _)
AccumulateGenres(lowerGenres, i, acc) ==
  IF i > Len(lowerGenres) THEN acc
  ELSE LET p == ScanPresets(lowerGenres[i], 1)
       IN  IF p = 0 THEN AccumulateGenres(lowerGenres, i + 1, acc)
           ELSE AccumulateGenres(lowerGenres, i + 1,
                  [totalEnergy  |-> acc.totalEnergy + GENRE_PRESETS[p].energy,
                   totalDance   |-> acc.totalDance + GENRE_PRESETS[p].danceability,
                   totalValence |-> acc.totalValence + GENRE_PRESETS[p].valence,
                   matches      |-> acc.matches + 1])

estimateFeaturesFromGenres(genres) ==
  IF ~genres.present \/ Len(genres.list) = 0 THEN DEFAULT_FEATURES
  ELSE LET lowerGenres == [i \in 1..Len(genres.list) |-> toLowerCase(genres.list[i])]
           acc == AccumulateGenres(lowerGenres, 1,
                    [totalEnergy |-> 0, totalDance |-> 0, totalValence |-> 0,
                     matches |-> 0])
       IN  IF acc.matches = 0 THEN DEFAULT_FEATURES
           ELSE [energy       |-> (acc.totalEnergy * Den) \div acc.matches,
                 danceability |-> (acc.totalDance * Den) \div acc.matches,
                 valence      |-> (acc.totalValence * Den) \div acc.matches]

calculateMoodScore(features, mood) ==
  LET energyDiff == Abs(features.energy - mood.energy)
      danceabilityDiff == Abs(features.danceability - mood.danceability)
      valenceDiff == Abs(features.valence - mood.valence)
  IN  energyDiff + danceabilityDiff + valenceDiff

-----------------------------------------------------------------------------
(* Genre names used as inputs *)

G_techno == <<"t","e","c","h","n","o">>
G_acoustic == <<"a","c","o","u","s","t","i","c">>
G_Electropop == <<"E","l","e","c","t","r","o","p","o","p">>
G_pop_rock == <<"p","o","p"," ","r","o","c","k">>
G_alt_metal == <<"a","l","t"," ","m","e","t","a","l">>
G_jazz == <<"j","a","z","z">>
G_Hard_Rock == <<"H","a","r","d"," ","R","o","c","k">>
G_trap_soul == <<"t","r","a","p"," ","s","o","u","l">>
G_folk_pop == <<"f","o","l","k","-","p","o","p">>
G_lo_fi == <<"l","o","-","f","i">>

GenreSamples ==
  {G_techno, G_acoustic, G_Electropop, G_pop_rock, G_alt_metal, G_jazz,
   G_Hard_Rock, G_trap_soul, G_folk_pop, G_lo_fi}

-----------------------------------------------------------------------------
(* The catalog service, as the code sees it *)

\* limit of one keyword search
SearchLimit == 20

\* pool size at which the collector stops
PoolLimit == 40

\* artist identifiers per batch lookup
BatchSize == 50

\* length of the returned ranking
OutputSize == 10

\* the first genres of the seed artist that are searched
MainGenreCount == 2

NumTracks == IF BigTop > 49 THEN BigTop ELSE 49

TrackId(n) == "trk" \o ToString(n)
ArtistId(a) == "ar" \o ToString(a)

\* the primary artist of track n: none for every 20th track, and every
\* track n = 20k+2 shares the artist of track n-1
ArtistNo(n) ==
  IF n % 20 = 0 THEN 0 ELSE IF n % 20 = 2 THEN n - 1 ELSE n

\* a track object: its id and track.artists?.[0]?.id ("" when there is none)
Track(n) ==
  [id |-> TrackId(n),
   artistId |-> IF ArtistNo(n) = 0 THEN "" ELSE ArtistId(ArtistNo(n))]

Window(first, len) == [i \in 1..len |-> Track(first + i - 1)]

ArtistGenreLists ==
  << <<G_techno>>,
     << >>,
     <<G_pop_rock, G_acoustic>>,
     <<G_jazz>>,
     <<G_Hard_Rock, G_alt_metal, G_lo_fi>>,
     <<G_Electropop>>,
     <<G_trap_soul, G_folk_pop>> >>

\* the artist object the batch lookup returns for each artist identifier
ArtistCatalog ==
  [id \in {ArtistId(a) : a \in 1..NumTracks} |->
     LET a == CHOOSE b \in 1..NumTracks : ArtistId(b) = id
     IN  [id |-> id,
          genres |-> ArtistGenreLists[(a % Len(ArtistGenreLists)) + 1]]]

\* seedArtist.genres in the answers to the seed-artist lookup
SeedGenreLists ==
  { << >>, <<G_techno>>, <<G_jazz, G_acoustic>>,
    <<G_pop_rock, G_lo_fi, G_techno>> }

\* topTracksRes.data.tracks in the answers to the top-tracks lookup; the
\* second repeats a track
TopTrackLists ==
  { << >>,
    <<Track(1), Track(2), Track(3), Track(1)>>,
    Window(1, 10), Window(1, 25), Window(1, PoolLimit + 1), Window(1, BigTop) }

\* searchRes.data.tracks.items in the answers to a keyword search
SearchHitLists ==
  { << >>, Window(8, SearchLimit), Window(30, SearchLimit) }

\* res.data.artists in the answers to a batch lookup of `batch`: every
\* requested artist, or all but the first one
ArtistLists(batch) ==
  { [i \in 1..Len(batch) |-> ArtistCatalog[batch[i]]],
    [i \in 1..(Len(batch) - 1) |-> ArtistCatalog[batch[i + 1]]] }

SeedSongs ==
  { [id |-> "trk2", artistId |-> "ar1"],
    [id |-> "trk2", artistId |-> ""],
    [id |-> "mock-1", artistId |-> "ar1"] }

MoodSettingsChoices ==
  { [energy |-> Hundredths(50), danceability |-> Hundredths(50), valence |-> Hundredths(50)],
    [energy |-> Hundredths(90), danceability |-> Hundredths(80), valence |-> Hundredths(60)],
    [energy |-> Hundredths(20), danceability |-> Hundredths(100), valence |-> Hundredths(0)] }

-----------------------------------------------------------------------------
(* MOCK DATA (fallback when no token or errors) *)

\* per entry: the multipliers of energy, danceability and valence
MockMultipliers ==
  << <<100, 100, 100>>, <<95, 90, 90>>, <<110, 95, 85>>, <<88, 92, 92>>,
     <<102, 98, 98>>, <<93, 87, 87>>, <<91, 89, 94>>, <<97, 85, 88>>,
     <<94, 96, 91>>, <<86, 83, 89>> >>

\* Math.round(x * mult) for x held in units of 1/(100*Den)
MockPercent(x, mult) == MathRound(x * mult, 100 * Den)

generateMockSongs(seed, mood) ==
  [k \in 1..Len(MockMultipliers) |->
     [id |-> "mock-" \o ToString(k),
      energyMatch  |-> MockPercent(mood.energy, MockMultipliers[k][1]),
      danceMatch   |-> MockPercent(mood.danceability, MockMultipliers[k][2]),
      valenceMatch |-> MockPercent(mood.valence, MockMultipliers[k][3])]]

-----------------------------------------------------------------------------
(* generateSongs: the code between two suspension points is one operator   *)
(* from the state of the call (a record of the variables) to its next      *)
(* state.                                                                  *)

Cur ==
  [pc |-> pc, seedSong |-> seedSong, moodSettings |-> moodSettings,
   token |-> token, artistReq |-> artistReq, topReq |-> topReq,
   artistRes |-> artistRes, topTracksRes |-> topTracksRes,
   seedGenres |-> seedGenres, candidateTracks |-> candidateTracks,
   seenTrackIds |-> seenTrackIds, mainGenres |-> mainGenres, gi |-> gi,
   batches |-> batches, bi |-> bi, artistMap |-> artistMap,
   tracksWithScores |-> tracksWithScores, result |-> result, via |-> via,
   outcome |-> outcome, issued |-> issued, answered |-> answered]

Apply(s) ==
  /\ pc' = s.pc
  /\ seedSong' = s.seedSong
  /\ moodSettings' = s.moodSettings
  /\ token' = s.token
  /\ artistReq' = s.artistReq
  /\ topReq' = s.topReq
  /\ artistRes' = s.artistRes
  /\ topTracksRes' = s.topTracksRes
  /\ seedGenres' = s.seedGenres
  /\ candidateTracks' = s.candidateTracks
  /\ seenTrackIds' = s.seenTrackIds
  /\ mainGenres' = s.mainGenres
  /\ gi' = s.gi
  /\ batches' = s.batches
  /\ bi' = s.bi
  /\ artistMap' = s.artistMap
  /\ tracksWithScores' = s.tracksWithScores
  /\ result' = s.result
  /\ via' = s.via
  /\ outcome' = s.outcome
  /\ issued' = s.issued
  /\ answered' = s.answered

\* return generateMockSongs(seedSong, moodSettings)
ReturnMock(s) ==
  [s EXCEPT !.pc = "done", !.via = "mock", !.outcome = "returned",
            !.result = generateMockSongs(s.seedSong, s.moodSettings)]

\* an outer catch that lets the error escape to the caller
TopLevelCatch_Rethrows(s) == [s EXCEPT !.pc = "done", !.outcome = "threw"]

\* the catch of the outer try
TopLevelCatch(s) == ReturnMock(s)

\* axios.get: one more request on its way to the catalog service
Issue(s, kind, n) == [s EXCEPT !.issued = Append(@, [kind |-> kind, n |-> n])]

\* the elements of seq at the positions in keep, in their order in seq
SelectAt(seq, keep) ==
  [k \in 1..Cardinality(keep) |->
     seq[CHOOSE i \in keep : Cardinality({j \in keep : j <= i}) = k]]

\* the positions of tracks that hold the first occurrence of an id that is
\* not in seen
FirstUnseen(tracks, seen) ==
  {i \in 1..Len(tracks) :
     /\ tracks[i].id \notin seen
     /\ \A j \in 1..(i - 1) : tracks[j].id # tracks[i].id}

PushAt(tracks, seen, keep) ==
  [candidateTracks |-> SelectAt(tracks, keep),
   seenTrackIds |-> seen \cup {tracks[i].id : i \in keep}]

\* for (const t of topTracks): every track whose id is not yet in
\* seenTrackIds is added to both, so a track is pushed at the first
\* occurrence of its id
AddTopTracks(tracks, seen) == PushAt(tracks, seen, FirstUnseen(tracks, seen))

\* an inner loop that never looks at the size of the pool
AddFound_NoLimit(found, i, cands, seen) ==
  LET added == AddTopTracks(SubSeq(found, i, Len(found)), seen)
  IN  [candidateTracks |-> cands \o added.candidateTracks,
       seenTrackIds |-> added.seenTrackIds]

\* for (const t of found): add an unseen track, then leave the loop when
\* the pool has reached the limit
RECURSIVE AddFound(_, _, _, _)
AddFound(found, i, cands, seen) ==
  IF i > Len(found) THEN [candidateTracks |-> cands, seenTrackIds |-> seen]
  ELSE LET unseen == found[i].id \notin seen
           cands1 == IF unseen THEN Append(cands, found[i]) ELSE cands
           seen1 == IF unseen THEN seen \cup {found[i].id} ELSE seen
       IN  IF Len(cands1) >= PoolLimit
           THEN [candidateTracks |-> cands1, seenTrackIds |-> seen1]
           ELSE AddFound(found, i + 1, cands1, seen1)

\* the positions of cands that hold the first occurrence of a primary-artist id
FirstOfArtist(cands) ==
  {i \in 1..Len(cands) :
     /\ cands[i].artistId # ""
     /\ \A j \in 1..(i - 1) : cands[j].artistId # cands[i].artistId}

ArtistIdsOf(kept) == [k \in 1..Len(kept) |-> kept[k].artistId]

\* Array.from(artistIdSet): the primary-artist ids of the candidates that
\* have one, in the order in which the set first received them
CollectArtistIds(cands) == ArtistIdsOf(SelectAt(cands, FirstOfArtist(cands)))

\* for (i = 0; i < artistIds.length; i += 50) batches.push(slice(i, i + 50))
MakeBatches(artistIds) ==
  [b \in 1..((Len(artistIds) + BatchSize - 1) \div BatchSize) |->
     SubSeq(artistIds, (b - 1) * BatchSize + 1,
            IF b * BatchSize < Len(artistIds) THEN b * BatchSize ELSE Len(artistIds))]

\* a selection that treats an empty genre list like a missing one
GenresFor_EmptyIsFalsy(track, amap, seedG) ==
  IF /\ track.artistId # ""
     /\ track.artistId \in DOMAIN amap
     /\ Len(amap[track.artistId].genres) > 0
  THEN amap[track.artistId].genres
  ELSE seedG

\* artist?.genres || seedGenres, where artist is artistMap[primaryArtistId]
\* for a track with a primary artist (an array, even an empty one, is truthy)
GenresFor(track, amap, seedG) ==
  IF track.artistId # "" /\ track.artistId \in DOMAIN amap
  THEN amap[track.artistId].genres
  ELSE seedG

\* the callback of candidateTracks.map
ScoreTrack(track, amap, seedG, mood) ==
  LET genres == GenresFor(track, amap, seedG)
      features == estimateFeaturesFromGenres(JsArray(genres))
  IN  [track |-> track, genres |-> genres, features |-> features,
       moodScore |-> calculateMoodScore(features, mood)]

\* the comparator (a, b) => a.moodScore - b.moodScore
CompareScores(a, b) == a.moodScore - b.moodScore

\* the merged run, given the position of each element of the two runs
MergeAt(left, right, posL, posR) ==
  [k \in 1..(Len(left) + Len(right)) |->
     IF \E i \in 1..Len(left) : posL[i] = k
     THEN left[CHOOSE i \in 1..Len(left) : posL[i] = k]
     ELSE right[CHOOSE j \in 1..Len(right) : posR[j] = k]]

\* a merge that takes the element of the right run first on a tie
Merge_RightFirstOnTies(left, right) ==
  MergeAt(left, right,
    << >> \o [i \in 1..Len(left) |->
       i + Cardinality({j \in 1..Len(right) : CompareScores(right[j], left[i]) <= 0})],
    << >> \o [j \in 1..Len(right) |->
       j + Cardinality({i \in 1..Len(left) : CompareScores(left[i], right[j]) < 0})])

\* one merge of the sort: an element of the left run goes before the
\* elements of the right run that do not compare less than it
Merge(left, right) ==
  MergeAt(left, right,
    << >> \o [i \in 1..Len(left) |->
       i + Cardinality({j \in 1..Len(right) : CompareScores(right[j], left[i]) < 0})],
    << >> \o [j \in 1..Len(right) |->
       j + Cardinality({i \in 1..Len(left) : CompareScores(left[i], right[j]) <= 0})])

\* Array.prototype.sort with the comparator: a stable merge sort
RECURSIVE SortByMoodScore(_)
SortByMoodScore(items) ==
  IF Len(items) <= 1 THEN items
  ELSE LET half == Len(items) \div 2
       IN  Merge(SortByMoodScore(SubSeq(items, 1, half)),
                 SortByMoodScore(SubSeq(items, half + 1, Len(items))))

\* tracksWithScores.slice(0, 10)
TopMatches(scored) ==
  SubSeq(scored, 1, IF Len(scored) < OutputSize THEN Len(scored) ELSE OutputSize)

\* Math.round((1 - Math.abs(feature - target)) * 100)
MatchPercent(feature, target) ==
  MathRound(Hundredths(100) - Abs(feature - target), Den)

\* the callback of topMatches.map
ToRecommendation(sc, mood) ==
  [id |-> sc.track.id,
   energyMatch  |-> MatchPercent(sc.features.energy, mood.energy),
   danceMatch   |-> MatchPercent(sc.features.danceability, mood.danceability),
   valenceMatch |-> MatchPercent(sc.features.valence, mood.valence)]

\* steps 4 and 5: score, sort, cut and return
Rank(s) ==
  LET scored == SortByMoodScore(
                  [i \in 1..Len(s.candidateTracks) |->
                     ScoreTrack(s.candidateTracks[i], s.artistMap,
                                s.seedGenres, s.moodSettings)])
      top == TopMatches(scored)
  IN  [s EXCEPT !.pc = "done", !.via = "live", !.outcome = "returned",
                !.tracksWithScores = scored,
                !.result = [i \in 1..Len(top) |->
                              ToRecommendation(top[i], s.moodSettings)]]

\* head of for (const batch of batches) at batch i: the next lookup is
\* issued, or the loop is over
BatchLoop(s, i) ==
  IF i <= Len(s.batches)
  THEN Issue([s EXCEPT !.pc = "batch", !.bi = i], "artists", i)
  ELSE Rank(s)

\* after the genre loop: the empty-pool check and step 3 up to the first
\* batch lookup
AfterGenreLoop(s) ==
  IF Len(s.candidateTracks) = 0 THEN ReturnMock(s)
  ELSE LET artistIds == CollectArtistIds(s.candidateTracks)
       IN  IF Len(artistIds) > 0
           THEN BatchLoop([s EXCEPT !.batches = MakeBatches(artistIds)], 1)
           ELSE Rank(s)

\* head of for (const g of mainGenres) at genre i: the next search is
\* issued, or the loop is over
GenreLoop(s, i) ==
  IF i <= Len(s.mainGenres)
  THEN Issue([s EXCEPT !.pc = "search", !.gi = i], "search", i)
  ELSE AfterGenreLoop(s)

\* a loop body without the closing break
EndOfGenreBody_NoBreak(s) == GenreLoop(s, s.gi + 1)

\* if (candidateTracks.length >= 40) break, at the end of the body of the
\* genre loop
EndOfGenreBody(s) ==
  IF Len(s.candidateTracks) >= PoolLimit THEN AfterGenreLoop(s)
  ELSE GenreLoop(s, s.gi + 1)

\* the code that follows the join of the two lookups, up to the first search
AfterJoin(s) ==
  LET genres == s.artistRes
      added == AddTopTracks(s.topTracksRes, {s.seedSong.id})
      main == SubSeq(genres, 1,
                IF Len(genres) < MainGenreCount THEN Len(genres) ELSE MainGenreCount)
  IN  GenreLoop([s EXCEPT !.seedGenres = genres,
                          !.candidateTracks = added.candidateTracks,
                          !.seenTrackIds = added.seenTrackIds,
                          !.mainGenres = main], 1)

\* a join that goes on with an empty track list when the top-tracks lookup
\* has failed
JoinSettled_PartialResult(s) ==
  IF s.pc # "join" THEN s
  ELSE IF s.artistReq = "fail" THEN TopLevelCatch(s)
  ELSE IF s.artistReq = "ok" /\ s.topReq \in {"ok", "fail"} THEN AfterJoin(s)
  ELSE s

\* Promise.all over the two lookups, when one of them has just settled:
\* rejected by the first failure, fulfilled when both have succeeded
JoinSettled(s) ==
  IF s.pc # "join" THEN s
  ELSE IF s.artistReq = "fail" \/ s.topReq = "fail" THEN TopLevelCatch(s)
  ELSE IF s.artistReq = "ok" /\ s.topReq = "ok" THEN AfterJoin(s)
  ELSE s

\* a call that does not check the seed's artist id
Call_NoArtistGuard(s, seed, mood, tok) ==
  LET s0 == [s EXCEPT !.seedSong = seed, !.moodSettings = mood, !.token = tok]
  IN  IF ~tok THEN ReturnMock(s0)
      ELSE Issue(Issue([s0 EXCEPT !.pc = "join", !.artistReq = "pending",
                                  !.topReq = "pending"],
                       "artist", 0), "top-tracks", 0)

\* generateSongs up to its first suspension point
Call(s, seed, mood, tok) ==
  LET s0 == [s EXCEPT !.seedSong = seed, !.moodSettings = mood, !.token = tok]
  IN  IF ~tok THEN ReturnMock(s0)
      ELSE IF seed.artistId = "" THEN ReturnMock(s0)
      ELSE Issue(Issue([s0 EXCEPT !.pc = "join", !.artistReq = "pending",
                                  !.topReq = "pending"],
                       "artist", 0), "top-tracks", 0)

\* for (const a of artists) artistMap[a.id] = a
PutArtists(amap, artists) ==
  LET ids == {artists[k].id : k \in 1..Len(artists)}
  IN  [id \in (DOMAIN amap) \cup ids |->
         IF id \in ids
         THEN artists[CHOOSE k \in 1..Len(artists) :
                        /\ artists[k].id = id
                        /\ \A j \in (k + 1)..Len(artists) : artists[j].id # id]
         ELSE amap[id]]

\* the log of answers: which request, whether it succeeded, the artist ids
\* it delivered, and the size of the pool once the answer was handled
Answer(s, kind, n, ok, ids) ==
  [s EXCEPT !.answered = Append(@, [kind |-> kind, n |-> n, ok |-> ok, ids |-> ids,
                                    pool |-> Len(s.candidateTracks)])]

\* a failed search that escapes to the outer catch
SearchFailed_Aborts(s) == TopLevelCatch(Answer(s, "search", s.gi, FALSE, {}))

\* the catch of the try around one search: the error is logged, and the body
\* of the genre loop goes on to its last statement
SearchFailed(s) == EndOfGenreBody(Answer(s, "search", s.gi, FALSE, {}))

\* the catch of the try around one batch lookup: the error is logged, and
\* the loop goes on to the next batch
BatchFailed(s) == BatchLoop(Answer(s, "artists", s.bi, FALSE, {}), s.bi + 1)

-----------------------------------------------------------------------------
(* Actions *)

EmptyMap == [id \in {} |-> id]

InitCall ==
  /\ pc = "idle"
  /\ seedSong = [id |-> "", artistId |-> ""]
  /\ moodSettings = [energy |-> 0, danceability |-> 0, valence |-> 0]
  /\ token = FALSE
  /\ artistReq = "none"
  /\ topReq = "none"
  /\ artistRes = << >>
  /\ topTracksRes = << >>
  /\ seedGenres = << >>
  /\ candidateTracks = << >>
  /\ seenTrackIds = {}
  /\ mainGenres = << >>
  /\ gi = 0
  /\ batches = << >>
  /\ bi = 0
  /\ artistMap = EmptyMap
  /\ tracksWithScores = << >>
  /\ result = << >>
  /\ via = "none"
  /\ outcome = "pending"
  /\ issued = << >>
  /\ answered = << >>

Init == InitCall /\ estIn = JsUndefined /\ estOut = << >>

\* a caller invokes generateSongs(seedSong, moodSettings, token)
generateSongs ==
  /\ pc = "idle"
  /\ \E seed \in SeedSongs, mood \in MoodSettingsChoices, tok \in BOOLEAN :
       Apply(Call(Cur, seed, mood, tok))
  /\ UNCHANGED <<estIn, estOut>>

\* the seed-artist lookup is answered
ArtistLookupSucceeds ==
  /\ artistReq = "pending"
  /\ \E genres \in SeedGenreLists :
       Apply(JoinSettled([Cur EXCEPT !.artistReq = "ok", !.artistRes = genres]))
  /\ UNCHANGED <<estIn, estOut>>

ArtistLookupFails ==
  /\ artistReq = "pending"
  /\ Apply(JoinSettled([Cur EXCEPT !.artistReq = "fail"]))
  /\ UNCHANGED <<estIn, estOut>>

\* the top-tracks lookup is answered
TopTracksLookupSucceeds ==
  /\ topReq = "pending"
  /\ \E tracks \in TopTrackLists :
       Apply(JoinSettled([Cur EXCEPT !.topReq = "ok", !.topTracksRes = tracks]))
  /\ UNCHANGED <<estIn, estOut>>

TopTracksLookupFails ==
  /\ topReq = "pending"
  /\ Apply(JoinSettled([Cur EXCEPT !.topReq = "fail"]))
  /\ UNCHANGED <<estIn, estOut>>

\* the search for mainGenres[gi] is answered: the body of the inner try
SearchSucceeds ==
  /\ pc = "search"
  /\ \E found \in SearchHitLists :
       LET added == AddFound(found, 1, candidateTracks, seenTrackIds)
       IN  Apply(EndOfGenreBody(
                   Answer([Cur EXCEPT !.candidateTracks = added.candidateTracks,
                                      !.seenTrackIds = added.seenTrackIds],
                          "search", gi, TRUE, {})))
  /\ UNCHANGED <<estIn, estOut>>

\* the search fails: the inner catch logs it
SearchFails ==
  /\ pc = "search"
  /\ Apply(SearchFailed(Cur))
  /\ UNCHANGED <<estIn, estOut>>

\* the lookup of batches[bi] is answered
ArtistBatchSucceeds ==
  /\ pc = "batch"
  /\ \E artists \in ArtistLists(batches[bi]) :
       Apply(BatchLoop(
               Answer([Cur EXCEPT !.artistMap = PutArtists(artistMap, artists)],
                      "artists", bi, TRUE,
                      {artists[k].id : k \in 1..Len(artists)}),
               bi + 1))
  /\ UNCHANGED <<estIn, estOut>>

\* the lookup fails: the inner catch logs it
ArtistBatchFails ==
  /\ pc = "batch"
  /\ Apply(BatchFailed(Cur))
  /\ UNCHANGED <<estIn, estOut>>

Next ==
  \/ generateSongs
  \/ ArtistLookupSucceeds
  \/ ArtistLookupFails
  \/ TopTracksLookupSucceeds
  \/ TopTracksLookupFails
  \/ SearchSucceeds
  \/ SearchFails
  \/ ArtistBatchSucceeds
  \/ ArtistBatchFails

Spec == Init /\ [][Next]_vars

-----------------------------------------------------------------------------
(* estimateFeaturesFromGenres called on its own *)

RECURSIVE SeqsUpTo(_, _)
SeqsUpTo(S, n) ==
  IF n = 0 THEN {<< >>}
  ELSE LET shorter == SeqsUpTo(S, n - 1)
       IN  shorter \cup {Append(l, g) : l \in shorter, g \in S}

EstInputs == {JsUndefined} \cup {JsArray(l) : l \in SeqsUpTo(GenreSamples, MaxGenres)}

EstInit == InitCall /\ estIn \in EstInputs /\ estOut = << >>

Estimate ==
  /\ estOut = << >>
  /\ estOut' = <<estimateFeaturesFromGenres(estIn)>>
  /\ UNCHANGED <<pc, seedSong, moodSettings, token, artistReq, topReq, artistRes,
                 topTracksRes, seedGenres, candidateTracks, seenTrackIds,
                 mainGenres, gi, batches, bi, artistMap, tracksWithScores,
                 result, via, outcome, issued, answered, estIn>>

EstNext == Estimate

EstSpec == EstInit /\ [][EstNext]_vars

-----------------------------------------------------------------------------
(* Properties *)

Done == pc = "done"

JoinOk == artistReq = "ok" /\ topReq = "ok"

JoinFailed == artistReq = "fail" \/ topReq = "fail"


Requests(kind) == {k \in 1..Len(issued) : issued[k].kind = kind}

Answers(kind) == {k \in 1..Len(answered) : answered[k].kind = kind}

\* the call is suspended on a request whose answer resumes it
Awaiting ==
  \/ pc = "join" /\ (artistReq = "pending" \/ topReq = "pending")
  \/ pc = "search" /\ gi \in 1..Len(mainGenres) /\ Cardinality(Requests("search")) = Cardinality(Answers("search")) + 1
  \/ pc = "batch" /\ bi \in 1..Len(batches) /\ Cardinality(Requests("artists")) = Cardinality(Answers("artists")) + 1

\* the expected fallback list, written out from the mood settings
ExpectedMock ==
  [k \in 1..10 |->
     [id |-> "mock-" \o ToString(k),
      energyMatch  |-> MathRound(moodSettings.energy * MockMultipliers[k][1], 100 * Den),
      danceMatch   |-> MathRound(moodSettings.danceability * MockMultipliers[k][2], 100 * Den),
      valenceMatch |-> MathRound(moodSettings.valence * MockMultipliers[k][3], 100 * Den)]]

\* C1: every call of generateSongs completes by returning a list of at most
\* 10 recommendations and never raises to the caller, whatever the upstream
\* answers; every failure path (no token, no seed artist id, a failed
\* initial lookup, an empty pool) ends in the mock list.
C1_AlwaysReturnsBoundedList ==
  /\ outcome # "threw"
  /\ ~Done => (pc = "idle" \/ Awaiting)
  /\ Done =>
       /\ outcome = "returned"
       /\ via \in {"mock", "live"}
       /\ Len(result) <= 10
       /\ (~token \/ seedSong.artistId = "" \/ JoinFailed \/ Len(candidateTracks) = 0)
            => (via = "mock" /\ result = ExpectedMock)

C1_Witness ==
  Done /\ token /\ artistReq = "ok" /\ topReq = "fail" /\ result = ExpectedMock

\* C2: in every run, live or fallback, the seed track's identifier is not
\* among the output identifiers and no output identifier occurs twice.
C2_DedupInvariant ==
  Done =>
    /\ \A k \in 1..Len(result) : result[k].id # seedSong.id
    /\ \A j, k \in 1..Len(result) : j # k => result[j].id # result[k].id

\* C3: with no token, or with a token and a seed without a primary-artist
\* identifier, no catalog request is issued and the result is exactly the
\* 10-item mock list computed from the mood settings.
C3_NoRequestsWithoutIdentity ==
  (Done /\ (~token \/ seedSong.artistId = "")) =>
    /\ issued = << >>
    /\ artistReq = "none" /\ topReq = "none"
    /\ Len(result) = 10
    /\ result = ExpectedMock
    /\ (moodSettings.energy = Hundredths(50)) =>
         (result[2].energyMatch = 48 /\ result[3].energyMatch = 55)

C3_Witness ==
  Done /\ token /\ seedSong.artistId = "" /\ issued = << >> /\ via = "mock"

\* C4: with a token, a seed artist id, both initial lookups successful and a
\* non-empty pool, the result is the live ranking of the gathered
\* candidates, whichever searches and batch lookups failed; the fallback is
\* reached only through a missing token or artist id, a failed initial
\* lookup, or an empty pool.
C4_PartialFailuresAbsorbed ==
  Done =>
    /\ (token /\ seedSong.artistId # "" /\ JoinOk /\ Len(candidateTracks) > 0) =>
         /\ via = "live"
         /\ Len(result) = (IF Len(candidateTracks) < 10 THEN Len(candidateTracks) ELSE 10)
         /\ \A k \in 1..Len(result) :
              \E i \in 1..Len(candidateTracks) : candidateTracks[i].id = result[k].id
    /\ via = "mock" =>
         (~token \/ seedSong.artistId = "" \/ JoinFailed \/ Len(candidateTracks) = 0)

C4_Witness ==
  /\ Done /\ via = "live"
  /\ \E k \in Answers("search") : ~answered[k].ok
  /\ \E k \in Answers("artists") : ~answered[k].ok
  /\ \E k \in Answers("artists") : answered[k].ok

\* C5: the two initial lookups are issued together and joined: no search or
\* batch lookup is issued before both have succeeded, and when either fails,
\* in any order of completion, the call returns the mock list and never a
\* ranking.
C5_JoinBeforeProceeding ==
  /\ (artistReq = "none") = (topReq = "none")
  /\ (Requests("search") \cup Requests("artists") # {}) => JoinOk
  /\ JoinFailed =>
       /\ Done /\ via = "mock" /\ result = ExpectedMock
       /\ Requests("search") \cup Requests("artists") = {}
       /\ tracksWithScores = << >>

C5_Witness ==
  /\ Done /\ via = "mock"
  /\ topReq = "ok" /\ Len(topTracksRes) > 0 /\ artistReq = "fail"

\* the moodScore of pool element i, computed apart from the sort
PoolScores ==
  [i \in 1..Len(candidateTracks) |->
     calculateMoodScore(
       estimateFeaturesFromGenres(
         JsArray(IF candidateTracks[i].artistId # ""
                    /\ candidateTracks[i].artistId \in DOMAIN artistMap
                 THEN artistMap[candidateTracks[i].artistId].genres
                 ELSE seedGenres)),
       moodSettings)]

\* the position of pool element i in the stable ascending order
StableRank(scores, i) ==
  Cardinality({j \in DOMAIN scores : scores[j] < scores[i]})
  + Cardinality({j \in DOMAIN scores : j < i /\ scores[j] = scores[i]}) + 1

\* C6: for a non-empty pool of size n the live output is the first
\* min(10, n) elements of the stable ascending sort of the pool by
\* moodScore.
C6_StableAscendingTopTen ==
  (Done /\ via = "live") =>
    LET n == Len(candidateTracks)
        scores == PoolScores
    IN  /\ n > 0
        /\ Len(result) = (IF n < 10 THEN n ELSE 10)
        /\ Len(tracksWithScores) = n
        /\ \A k \in 1..(n - 1) :
             tracksWithScores[k].moodScore <= tracksWithScores[k + 1].moodScore
        /\ \A i \in 1..n :
             LET r == StableRank(scores, i)
             IN  /\ tracksWithScores[r].track = candidateTracks[i]
                 /\ tracksWithScores[r].moodScore = scores[i]
                 /\ r <= 10 => result[r].id = candidateTracks[i].id

C6_Witness ==
  /\ Done /\ via = "live" /\ Len(candidateTracks) > 10
  /\ \E j, k \in 1..10 :
       /\ j < k
       /\ tracksWithScores[j].moodScore = tracksWithScores[k].moodScore
       /\ tracksWithScores[k].moodScore < tracksWithScores[10].moodScore
  /\ \E k \in Answers("search") : answered[k].ok /\ answered[k].pool > Len(topTracksRes)

\* C7 as stated: a search is issued for each of the first two seed genres,
\* also when the first search has filled the pool to 40.
C7_EveryMainGenreSearched ==
  (Done /\ JoinOk) => Cardinality(Requests("search")) = Len(mainGenres)

\* C7 as the code has it: the first of the (at most two) main genres is
\* always searched; the second is searched exactly when the pool holds fewer
\* than 40 candidates once the first search has been handled.  A pool of 40
\* ends the genre loop.
C7_SecondSearchOnlyBelowLimit ==
  (Done /\ JoinOk) =>
    /\ Len(mainGenres) = (IF Len(artistRes) < 2 THEN Len(artistRes) ELSE 2)
    /\ \A k \in Requests("search") : issued[k].n \in 1..Len(mainGenres)
    /\ Len(mainGenres) >= 1 => \E k \in Requests("search") : issued[k].n = 1
    /\ (\E k \in Requests("search") : issued[k].n = 2) <=>
         (/\ Len(mainGenres) = 2
          /\ \E a \in Answers("search") : answered[a].n = 1 /\ answered[a].pool < 40)
    /\ Cardinality(Requests("search")) <= 2

C7_Witness ==
  /\ Done /\ JoinOk /\ Len(mainGenres) = 2
  /\ Len(topTracksRes) < 40
  /\ \E a \in Answers("search") : answered[a].n = 1 /\ answered[a].ok /\ answered[a].pool = 40
  /\ Cardinality(Requests("search")) = 1

\* C8 as stated: the pool never holds more than 40 candidates, for any
\* number of top tracks and search hits.
C8_PoolAtMostForty == Len(candidateTracks) <= 40

\* C8 as the code has it: the limit of 40 is applied to search hits only.
\* The pool holds at most 40 candidates when fewer than 40 top tracks were
\* returned, and at most max(40, t + 1) for t top tracks.
C8_PoolBoundedBySearchLimit ==
  LET t == Len(topTracksRes)
  IN  /\ t < 40 => Len(candidateTracks) <= 40
      /\ Len(candidateTracks) <= (IF t + 1 > 40 THEN t + 1 ELSE 40)
      /\ Len(tracksWithScores) <= (IF t + 1 > 40 THEN t + 1 ELSE 40)

C8_Witness ==
  /\ Len(topTracksRes) = 10 /\ Len(candidateTracks) = 40
  /\ Cardinality(Answers("search")) = 2

\* an artist is resolved when a successful batch lookup delivered it
Resolved(a) ==
  a # "" /\ \E k \in Answers("artists") : answered[k].ok /\ a \in answered[k].ids

\* C9: the genre list handed to the estimator for a candidate is its primary
\* artist's list when a successful batch lookup resolved that artist, and
\* the seed artist's list when it is unresolved (failed batch, artist
\* missing from the answer, no primary artist); no candidate is dropped.
C9_GenreInheritance ==
  (Done /\ via = "live") =>
    /\ Len(tracksWithScores) = Len(candidateTracks)
    /\ \A i \in 1..Len(candidateTracks) :
         \E k \in 1..Len(tracksWithScores) : tracksWithScores[k].track = candidateTracks[i]
    /\ \A k \in 1..Len(tracksWithScores) :
         LET sc == tracksWithScores[k]
             a == sc.track.artistId
         IN  /\ sc.genres = (IF Resolved(a) THEN ArtistCatalog[a].genres ELSE seedGenres)
             /\ sc.features = estimateFeaturesFromGenres(JsArray(sc.genres))
    /\ seedGenres = artistRes

C9_Witness ==
  /\ Done /\ via = "live" /\ Len(seedGenres) > 0
  /\ \E k \in Answers("artists") : ~answered[k].ok
  /\ \E k \in 1..Len(tracksWithScores) :
       Resolved(tracksWithScores[k].track.artistId) /\ tracksWithScores[k].genres = << >>
  /\ \E k \in 1..Len(tracksWithScores) :
       /\ tracksWithScores[k].track.artistId # ""
       /\ ~Resolved(tracksWithScores[k].track.artistId)
       /\ tracksWithScores[k].genres = seedGenres
  /\ \E k \in 1..Len(tracksWithScores) : tracksWithScores[k].track.artistId = ""

Min(S) == CHOOSE x \in S : \A y \in S : x <= y

\* kw occurs in g
IsSubstring(kw, g) ==
  \E i \in 1..(Len(g) + 1), j \in 0..Len(g) : SubSeq(g, i, j) = kw

\* the first preset in table order with a keyword inside the lower-cased
\* genre; 0 when there is none
FirstPreset(g) ==
  LET lower == toLowerCase(g)
      matching == {p \in 1..Len(GENRE_PRESETS) :
                     \E k \in 1..Len(GENRE_PRESETS[p].keywords) :
                       IsSubstring(GENRE_PRESETS[p].keywords[k], lower)}
  IN  IF matching = {} THEN 0 ELSE Min(matching)

RECURSIVE SumOver(_, _, _)
SumOver(credited, i, field) ==
  IF i > Len(credited) THEN 0
  ELSE (IF credited[i] = 0 THEN 0
        ELSE IF field = "energy" THEN GENRE_PRESETS[credited[i]].energy
        ELSE IF field = "danceability" THEN GENRE_PRESETS[credited[i]].danceability
        ELSE GENRE_PRESETS[credited[i]].valence)
       + SumOver(credited, i + 1, field)

\* the mean of the credited triples, or the default triple
ExpectedFeatures(genres) ==
  LET credited == [i \in 1..Len(genres.list) |-> FirstPreset(genres.list[i])]
      count == Cardinality({i \in 1..Len(credited) : credited[i] # 0})
  IN  IF ~genres.present \/ count = 0
      THEN [energy |-> 60 * Den, danceability |-> 60 * Den, valence |-> 60 * Den]
      ELSE [energy       |-> (SumOver(credited, 1, "energy") * Den) \div count,
            danceability |-> (SumOver(credited, 1, "danceability") * Den) \div count,
            valence      |-> (SumOver(credited, 1, "valence") * Den) \div count]

\* C10: estimateFeaturesFromGenres credits each genre with the first preset
\* in table order that has a keyword inside the lower-cased genre, and
\* returns the mean of the credited triples; the default triple
\* {0.6, 0.6, 0.6} for an empty or absent list and for a list with no
\* match.  ["techno"] gives {0.9, 0.8, 0.6}; ["techno", "acoustic"] gives
\* {0.65, 0.625, 0.65}.
C10_FirstMatchMean ==
  estOut # << >> =>
    /\ estOut[1] = ExpectedFeatures(estIn)
    /\ estIn = JsArray(<<G_techno>>) =>
         estOut[1] = [energy |-> 90 * Den, danceability |-> 80 * Den, valence |-> 60 * Den]
    /\ estIn = JsArray(<<G_techno, G_acoustic>>) =>
         estOut[1] = [energy |-> 65 * Den, danceability |-> (125 * Den) \div 2,
                      valence |-> 65 * Den]
    /\ (estIn = JsUndefined \/ estIn = JsArray(<< >>) \/ estIn = JsArray(<<G_jazz>>)) =>
         estOut[1] = [energy |-> 60 * Den, danceability |-> 60 * Den, valence |-> 60 * Den]
    /\ estIn = JsArray(<<G_Electropop>>) =>
         estOut[1] = [energy |-> 90 * Den, danceability |-> 80 * Den, valence |-> 60 * Den]

C10_Witness ==
  /\ estIn = JsArray(<<G_techno, G_acoustic>>)
  /\ estOut = << [energy |-> 65 * Den, danceability |-> (125 * Den) \div 2,
                  valence |-> 65 * Den] >>
====
